---- MODULE Spec2Model ----
(***************************************************************************)
(* lithium: the radix tree container (li::radix_tree, src/radix_tree.h).   *)
(*                                                                         *)
(* The heap is a function from node addresses to node records; a pointer   *)
(* is a node address, NULL is 0.  A list position (a list_head pointer) is   *)
(* the address of the record embedding the link, so the position of a data *)
(* node d is d, the position of the tree's own sentinel `head` is End, and *)
(* the position computed from a NULL data_node* is NULL itself.            *)
(*                                                                         *)
(* The chained hash map (li::hashmap, src/hashmap.h) is the second         *)
(* container: its hash_nodes live in a heap of their own, a bucket chain   *)
(* and the order list are the sequences of the nodes linked into them.     *)
(***************************************************************************)
EXTENDS Integers, Sequences, FiniteSets, TLC

\* ------------------------------------------------------------ bounds
MaxOps == 5
Keys == {0, 1, 64, 4096}
Vals == {"a", "b"}
HashOps == 4
HashKeys == {0, 1, 2}
HashVals == {0, 1, 2}

\* ------------------------------------------------------------ constants
RT_BRANCH_FACTOR_BIT == 6
RT_BRANCH_FACTOR == 2 ^ RT_BRANCH_FACTOR_BIT
RT_BRANCH_INDEX_MASK == RT_BRANCH_FACTOR - 1

\* width of index_t in bits (the typedef lives in lithium.h)
IndexBits == 16
IndexMod == 2 ^ IndexBits
\* u16 radix_node::size
U16Mod == 2 ^ 16
\* hashmap () : _size (4096)
DefaultBuckets == 4096
\* the bucket counts given to hashmap (size_t size), and the default
Buckets == {1, 2, DefaultBuckets}

NULL == 0
\* &head, the sentinel of the order list: end()
End == -1
\* an indeterminate pointer value that is no object of the program
Wild == -2

\* ------------------------------------------------------------ state
VARIABLES
    nodes,      \* heap: address -> radix_node or data_node record
    rt_root,    \* radix_tree::rt_root
    head,       \* radix_tree::head, the order list as the sequence of linked data nodes
    _size,      \* radix_tree::_size
    cpy,        \* the trees copy-constructed from this one and still alive (at most one)
    live,       \* history: the pairs inserted and not erased since, oldest first
    op,         \* the operation that ran last
    arg,        \* its key argument
    argval,     \* its value argument (insert)
    retIt,      \* the list position it returned
    retFlag,    \* pair::second of insert / erase(key) != 0
    crashed,    \* the process died on a NULL dereference
    nops,       \* number of mutating calls so far
    hm_size,    \* hashmap::_size, the bucket count
    hm_table,   \* hashmap::_table: bucket index -> the chain of hash_nodes linked there
    hm_head,    \* hashmap::head, the order list of the hash map
    hm_nodes,   \* the hash_nodes: address -> [key, value]
    hm_hash,    \* what _hash yields for the bytes of each key
    hm_first    \* history: key -> the value of its first insert into the hash map

hvars == <<hm_size, hm_table, hm_head, hm_nodes, hm_hash, hm_first>>

vars == <<nodes, rt_root, head, _size, cpy, live, op, arg, argval, retIt, retFlag, crashed, nops,
          hm_size, hm_table, hm_head, hm_nodes, hm_hash, hm_first>>

Tree == [nodes |-> nodes, rt_root |-> rt_root, head |-> head, _size |-> _size]

Map == [_size |-> hm_size, _table |-> hm_table, head |-> hm_head, nodes |-> hm_nodes,
        _hash |-> hm_hash]

\* ------------------------------------------------------------ helpers
\* operator new: the lowest free address
New(ns) ==
    CHOOSE i \in 1..(Cardinality(DOMAIN ns) + 1) :
        /\ i \notin DOMAIN ns
        /\ \A j \in 1..(i - 1) : j \in DOMAIN ns

Put(ns, a, rec) == [x \in (DOMAIN ns) \cup {a} |-> IF x = a THEN rec ELSE ns[x]]

Drop(ns, gone) == [x \in (DOMAIN ns) \ gone |-> ns[x]]

\* (key >> shift) & RT_BRANCH_INDEX_MASK with shift = height * RT_BRANCH_FACTOR_BIT
SlotIndex(key, height) ==
    (key \div (2 ^ (height * RT_BRANCH_FACTOR_BIT))) % (RT_BRANCH_INDEX_MASK + 1)

\* the slots array is kept as the function from its non-NULL indices to
\* their entries: slots[i] reads NULL at every other index below RT_BRANCH_FACTOR
Slot(rec, i) == IF i \in DOMAIN rec.slots THEN rec.slots[i] ELSE NULL

\* slots[i] = p
SetSlot(sl, i, p) ==
    IF p = NULL
    THEN [x \in (DOMAIN sl) \ {i} |-> sl[x]]
    ELSE [x \in (DOMAIN sl) \cup {i} |-> IF x = i THEN p ELSE sl[x]]

radix_node(self) ==
    [kind |-> "branch", parent |-> self, height |-> 0, size |-> 0, offset |-> 0,
     slots |-> [i \in {} |-> NULL]]

data_node(key, val) ==
    [kind |-> "data", parent |-> NULL, offset |-> 0,
     value |-> [first |-> key, second |-> val]]

\* max_height rounded down instead of up
max_height_rounds_down == IndexBits \div RT_BRANCH_FACTOR_BIT

\* div_round_up (sizeof (index_t) << 3, RT_BRANCH_FACTOR_BIT)
max_height == (IndexBits + RT_BRANCH_FACTOR_BIT - 1) \div RT_BRANCH_FACTOR_BIT

\* the value of `last` after iteration i of the loop of __ctor
RECURSIVE CtorLast(_)
CtorLast(i) ==
    IF i < 0 THEN 1
    ELSE (CtorLast(i - 1) * (2 ^ RT_BRANCH_FACTOR_BIT)) % IndexMod

\* max_index[h] as __ctor leaves it
max_index(h) == (CtorLast(h) - 1) % IndexMod

\* ------------------------------------------------------------ list.h
\* list_insert (&head, &node->head)
list_insert(l, n) == Append(l, n)

\* ~list_head of the link embedded in a destroyed node
list_unlink(l, gone) == SelectSeq(l, LAMBDA n : n \notin gone)

\* begin (): iterator (head.next)
begin(T) == IF Len(T.head) = 0 THEN End ELSE Head(T.head)

\* ------------------------------------------------------------ radix_tree
__ctor ==
    [nodes |-> Put(<<>>, 1, radix_node(1)), rt_root |-> 1, head |-> <<>>, _size |-> 0]

\* extend () that forgets retval->slots[0] = rt_root
extend_drops_root(T) ==
    LET retval == New(T.nodes)
        rec == [radix_node(retval) EXCEPT
                   !.height = T.nodes[T.rt_root].height + 1,
                   !.size = 1]
        ns == Put([T.nodes EXCEPT ![T.rt_root].parent = retval], retval, rec)
    IN  [T EXCEPT !.nodes = ns, !.rt_root = retval]

\* extend () that forgets rt_root->parent = retval
extend_keeps_parent(T) ==
    LET retval == New(T.nodes)
        rec == [radix_node(retval) EXCEPT
                   !.height = T.nodes[T.rt_root].height + 1,
                   !.size = 1,
                   !.slots = SetSlot(@, 0, T.rt_root)]
        ns == Put(T.nodes, retval, rec)
    IN  [T EXCEPT !.nodes = ns, !.rt_root = retval]

extend(T) ==
    LET retval == New(T.nodes)
        rec == [radix_node(retval) EXCEPT
                   !.height = T.nodes[T.rt_root].height + 1,
                   !.size = 1,
                   !.slots = SetSlot(@, 0, T.rt_root)]
        ns == Put([T.nodes EXCEPT ![T.rt_root].parent = retval], retval, rec)
    IN  [T EXCEPT !.nodes = ns, !.rt_root = retval]

\* while (key > max_index[rt_root->height]) rt_root = extend ();
RECURSIVE ExtendLoop(_, _)
ExtendLoop(T, key) ==
    IF key > max_index(T.nodes[T.rt_root].height)
    THEN ExtendLoop(extend(T), key)
    ELSE T

\* the descent of insert: the heap and the height-0 node it ends in
RECURSIVE InsertDescend(_, _, _, _)
InsertDescend(ns, parent, height, key) ==
    IF height = 0 THEN [nodes |-> ns, parent |-> parent]
    ELSE LET index == SlotIndex(key, height)
             slot == Slot(ns[parent], index)
         IN  IF slot = NULL
             THEN LET s == New(ns)
                      rec == [radix_node(s) EXCEPT
                                 !.height = height - 1,
                                 !.parent = parent,
                                 !.offset = index]
                      ns1 == Put([ns EXCEPT ![parent].slots = SetSlot(@, index, s),
                                            ![parent].size = (@ + 1) % U16Mod],
                                 s, rec)
                  IN  InsertDescend(ns1, s, height - 1, key)
             ELSE InsertDescend(ns, slot, height - 1, key)

\* the values the uninitialised local `node` of insert may hold
Indeterminate(T) == {End, Wild, NULL} \cup {n \in DOMAIN T.nodes : T.nodes[n].kind = "data"}

\* insert () that stores val over the value of a key already present
insert_overwrites(T, key, val) ==
    LET T1 == ExtendLoop(T, key)
        d == InsertDescend(T1.nodes, T1.rt_root, T1.nodes[T1.rt_root].height, key)
        parent == d.parent
        index == SlotIndex(key, 0)
        old == Slot(d.nodes[parent], index)
        second == old = NULL
        node == New(d.nodes)
        rec == [data_node(key, val) EXCEPT !.parent = parent, !.offset = index]
        ns == Put([d.nodes EXCEPT ![parent].size = (@ + 1) % U16Mod,
                                  ![parent].slots = SetSlot(@, index, node)],
                  node, rec)
    IN  IF second
        THEN [tree |-> [nodes |-> ns, rt_root |-> T1.rt_root,
                        head |-> list_insert(T1.head, node), _size |-> T1._size + 1],
              second |-> TRUE, first |-> {node}]
        ELSE [tree |-> [T1 EXCEPT !.nodes = [d.nodes EXCEPT ![old].value.second = val]],
              second |-> FALSE, first |-> Indeterminate(T1)]

\* insert () that links a new data node in front of the order list
insert_links_front(T, key, val) ==
    LET T1 == ExtendLoop(T, key)
        d == InsertDescend(T1.nodes, T1.rt_root, T1.nodes[T1.rt_root].height, key)
        parent == d.parent
        index == SlotIndex(key, 0)
        second == Slot(d.nodes[parent], index) = NULL
        node == New(d.nodes)
        rec == [data_node(key, val) EXCEPT !.parent = parent, !.offset = index]
        ns == Put([d.nodes EXCEPT ![parent].size = (@ + 1) % U16Mod,
                                  ![parent].slots = SetSlot(@, index, node)],
                  node, rec)
    IN  IF second
        THEN [tree |-> [nodes |-> ns, rt_root |-> T1.rt_root,
                        head |-> <<node>> \o T1.head, _size |-> T1._size + 1],
              second |-> TRUE, first |-> {node}]
        ELSE [tree |-> [T1 EXCEPT !.nodes = d.nodes],
              second |-> FALSE, first |-> Indeterminate(T1)]

\* insert (key, val): the tree afterwards, pair::second, and the positions
\* pair::first may hold
insert(T, key, val) ==
    LET T1 == ExtendLoop(T, key)
        d == InsertDescend(T1.nodes, T1.rt_root, T1.nodes[T1.rt_root].height, key)
        parent == d.parent
        index == SlotIndex(key, 0)
        second == Slot(d.nodes[parent], index) = NULL
        node == New(d.nodes)
        rec == [data_node(key, val) EXCEPT !.parent = parent, !.offset = index]
        ns == Put([d.nodes EXCEPT ![parent].size = (@ + 1) % U16Mod,
                                  ![parent].slots = SetSlot(@, index, node)],
                  node, rec)
    IN  IF second
        THEN [tree |-> [nodes |-> ns, rt_root |-> T1.rt_root,
                        head |-> list_insert(T1.head, node), _size |-> T1._size + 1],
              second |-> TRUE, first |-> {node}]
        ELSE [tree |-> [T1 EXCEPT !.nodes = d.nodes],
              second |-> FALSE, first |-> Indeterminate(T1)]

\* the descent of __find: the height-0 node it ends in, NULL at an empty slot
RECURSIVE FindDescend(_, _, _, _)
FindDescend(ns, cur, height, key) ==
    IF height = 0 THEN cur
    ELSE LET slot == Slot(ns[cur], SlotIndex(key, height))
         IN  IF slot = NULL THEN NULL ELSE FindDescend(ns, slot, height - 1, key)

\* __find (key): &node->head of the final slot, taken without a NULL test
__find(T, key) ==
    IF key > max_index(T.nodes[T.rt_root].height) THEN End
    ELSE LET leaf == FindDescend(T.nodes, T.rt_root, T.nodes[T.rt_root].height, key)
         IN  IF leaf = NULL THEN End
             ELSE Slot(T.nodes[leaf], SlotIndex(key, 0))

find(T, key) == __find(T, key)

\* everything ~radix_node destroys: the node and all it owns
RECURSIVE Owned(_, _)
Owned(ns, n) ==
    IF ns[n].kind = "data" THEN {n}
    ELSE {n} \cup UNION {Owned(ns, ns[n].slots[i]) : i \in DOMAIN ns[n].slots}

\* delete node: the heap loses what the node owns, the links leave the list
Delete(T, n) ==
    LET gone == Owned(T.nodes, n)
    IN  [T EXCEPT !.nodes = Drop(T.nodes, gone), !.head = list_unlink(T.head, gone)]

RECURSIVE shrink(_, _)
shrink(T, node) ==
    IF node # T.rt_root /\ T.nodes[node].size = 0
    THEN LET parent == T.nodes[node].parent
             T1 == [T EXCEPT !.nodes[parent].slots = SetSlot(@, T.nodes[node].offset, NULL)]
         IN  shrink(Delete(T1, node), parent)
    ELSE T

\* erase (iterator) that forgets delete d_node
erase_it_keeps_node(T, d_node) ==
    LET p_node == T.nodes[d_node].parent
        T1 == [T EXCEPT !.nodes[p_node].slots = SetSlot(@, T.nodes[d_node].offset, NULL),
                        !.nodes[p_node].size = (@ - 1) % U16Mod]
        T2 == IF T1.nodes[p_node].size = 0 THEN shrink(T1, p_node) ELSE T1
    IN  [T2 EXCEPT !._size = @ - 1]

\* erase (iterator) that starts over with a fresh root once the tree is empty
erase_it_resets_root(T, d_node) ==
    LET p_node == T.nodes[d_node].parent
        T1 == [T EXCEPT !.nodes[p_node].slots = SetSlot(@, T.nodes[d_node].offset, NULL),
                        !.nodes[p_node].size = (@ - 1) % U16Mod]
        T2 == IF T1.nodes[p_node].size = 0 THEN shrink(T1, p_node) ELSE T1
        T3 == Delete(T2, d_node)
    IN  IF T3._size = 1
        THEN [nodes |-> Put(<<>>, 1, radix_node(1)), rt_root |-> 1,
              head |-> <<>>, _size |-> 0]
        ELSE [T3 EXCEPT !._size = @ - 1]

\* erase (iterator) of the position of a live data node
erase_it(T, d_node) ==
    LET p_node == T.nodes[d_node].parent
        T1 == [T EXCEPT !.nodes[p_node].slots = SetSlot(@, T.nodes[d_node].offset, NULL),
                        !.nodes[p_node].size = (@ - 1) % U16Mod]
        T2 == IF T1.nodes[p_node].size = 0 THEN shrink(T1, p_node) ELSE T1
        T3 == Delete(T2, d_node)
    IN  [T3 EXCEPT !._size = @ - 1]

\* bool empty () const
empty(T) == T._size = 0

\* size_t size ()
size(T) == T._size

IsData(T, p) == p \in DOMAIN T.nodes /\ T.nodes[p].kind = "data"

\* radix_tree (radix_tree &tree): replay of the source's order list
RECURSIVE Replay(_, _, _)
Replay(T, src, l) ==
    IF l = <<>> THEN T
    ELSE Replay(insert(T, src.nodes[Head(l)].value.first,
                       src.nodes[Head(l)].value.second).tree, src, Tail(l))

copy_ctor(src) == Replay(__ctor, src, src.head)

\* ------------------------------------------------------------ hashmap
\* hashmap (size_t size) : _size (size), _post_ctor (): that many empty
\* buckets, an empty order list; f is what _hash computes
hashmap(buckets, f) ==
    [_size |-> buckets, _table |-> <<>>, head |-> <<>>, nodes |-> <<>>, _hash |-> f]

\* index_t _x = _hash ((u8 *)keyptr, size) % _size
BucketIndex(H, key) == (H._hash[key] % H._size) % IndexMod

\* the chain of bucket _table + x; the table keeps its non-empty buckets
Chain(H, x) == IF x \in DOMAIN H._table THEN H._table[x] ELSE <<>>

\* list_for_each_entry over a chain: the first node whose key equals key,
\* NULL when the loop runs out
ChainScan(H, chain, key) ==
    LET hits == {i \in 1..Len(chain) : H.nodes[chain[i]].key = key}
    IN  IF hits = {} THEN NULL
        ELSE chain[CHOOSE i \in hits : \A j \in hits : i <= j]

\* a scan that compares the first node of the chain only
ChainScan_first_only(H, chain, key) ==
    IF Len(chain) > 0 /\ H.nodes[chain[1]].key = key THEN chain[1] ELSE NULL

\* hashmap::insert whose scan stops after the first node of the chain
hashmap_insert_first_only(H, key, val) ==
    LET x == BucketIndex(H, key)
        hit == ChainScan_first_only(H, Chain(H, x), key)
        node == New(H.nodes)
    IN  IF hit # NULL
        THEN [map |-> H, first |-> hit, second |-> FALSE]
        ELSE [map |-> [H EXCEPT !.nodes = Put(H.nodes, node, [key |-> key, value |-> val]),
                                !._table = Put(H._table, x, list_insert(Chain(H, x), node)),
                                !.head = list_insert(H.head, node)],
              first |-> node, second |-> TRUE]

\* hashmap::insert (_key, val): the map afterwards and the pair returned
hashmap_insert(H, key, val) ==
    LET x == BucketIndex(H, key)
        hit == ChainScan(H, Chain(H, x), key)
        node == New(H.nodes)
    IN  IF hit # NULL
        THEN [map |-> H, first |-> hit, second |-> FALSE]
        ELSE [map |-> [H EXCEPT !.nodes = Put(H.nodes, node, [key |-> key, value |-> val]),
                                !._table = Put(H._table, x, list_insert(Chain(H, x), node)),
                                !.head = list_insert(H.head, node)],
              first |-> node, second |-> TRUE]

\* hashmap::find (_key): the position of the node found, end () otherwise
hashmap_find(H, key) ==
    LET hit == ChainScan(H, Chain(H, BucketIndex(H, key)), key)
    IN  IF hit # NULL THEN hit ELSE End

\* ------------------------------------------------------------ history
LiveKeys == {live[i].first : i \in 1..Len(live)}
LiveIndex(k) == (CHOOSE i \in 1..Len(live) : live[i].first = k)
WithoutKey(l, k) == SelectSeq(l, LAMBDA e : e.first # k)

\* ------------------------------------------------------------ actions
\* radix_tree <T> tree;
TreeInit ==
    /\ nodes = __ctor.nodes
    /\ rt_root = __ctor.rt_root
    /\ head = __ctor.head
    /\ _size = __ctor._size
    /\ cpy = <<>>
    /\ live = <<>>
    /\ op = "ctor"
    /\ arg = 0
    /\ argval = ""
    /\ retIt = End
    /\ retFlag = FALSE
    /\ crashed = FALSE
    /\ nops = 0

\* the tree, and beside it a hashmap () nothing is called on
Init ==
    /\ TreeInit
    /\ LET H == hashmap(DefaultBuckets, [k \in HashKeys |-> k])
       IN  /\ hm_size = H._size
           /\ hm_table = H._table
           /\ hm_head = H.head
           /\ hm_nodes = H.nodes
           /\ hm_hash = H._hash
    /\ hm_first = <<>>

SetTree(T) ==
    /\ nodes' = T.nodes
    /\ rt_root' = T.rt_root
    /\ head' = T.head
    /\ _size' = T._size

\* a call of insert (key, v) on the tree
InsertCall(key, v) ==
    /\ ~crashed
    /\ cpy = <<>>
    /\ LET r == insert(Tree, key, v)
       IN  /\ SetTree(r.tree)
           /\ retFlag' = r.second
           /\ \E it \in r.first : retIt' = it
    /\ live' = IF key \in LiveKeys THEN live
               ELSE Append(live, [first |-> key, second |-> v])
    /\ op' = "insert"
    /\ arg' = key
    /\ argval' = v
    /\ nops' = nops + 1
    /\ UNCHANGED <<cpy, crashed>>
    /\ UNCHANGED hvars

Insert(key, v) ==
    /\ nops < MaxOps
    /\ InsertCall(key, v)

\* find () that grows the root for a key beyond max_index, as insert does
Find_extends(key) ==
    /\ ~crashed
    /\ cpy = <<>>
    /\ SetTree(ExtendLoop(Tree, key))
    /\ retIt' = find(ExtendLoop(Tree, key), key)
    /\ retFlag' = FALSE
    /\ op' = "find"
    /\ arg' = key
    /\ argval' = ""
    /\ UNCHANGED <<cpy, live, crashed, nops>>
    /\ UNCHANGED hvars

Find(key) ==
    /\ ~crashed
    /\ cpy = <<>>
    /\ retIt' = find(Tree, key)
    /\ retFlag' = FALSE
    /\ op' = "find"
    /\ arg' = key
    /\ argval' = ""
    /\ UNCHANGED <<nodes, rt_root, head, _size, cpy, live, crashed, nops>>
    /\ UNCHANGED hvars

\* a call of u32 erase (const index_t &key) on the tree
EraseKeyCall(key) ==
    /\ ~crashed
    /\ cpy = <<>>
    /\ LET it == find(Tree, key)
       IN  /\ retIt' = it
           /\ IF it = End
              THEN /\ retFlag' = FALSE
                   /\ UNCHANGED <<nodes, rt_root, head, _size, live, crashed>>
              ELSE IF IsData(Tree, it)
              THEN /\ SetTree(erase_it(Tree, it))
                   /\ retFlag' = TRUE
                   /\ live' = WithoutKey(live, key)
                   /\ UNCHANGED crashed
              ELSE \* d_node->parent read through a NULL d_node
                   /\ crashed' = TRUE
                   /\ retFlag' = FALSE
                   /\ UNCHANGED <<nodes, rt_root, head, _size, live>>
    /\ op' = "erase"
    /\ arg' = key
    /\ argval' = ""
    /\ nops' = nops + 1
    /\ UNCHANGED cpy
    /\ UNCHANGED hvars

EraseKey(key) ==
    /\ nops < MaxOps
    /\ EraseKeyCall(key)

\* void erase (iterator iter), iter a valid position other than end ()
EraseIter(i) ==
    /\ ~crashed
    /\ cpy = <<>>
    /\ nops < MaxOps
    /\ i \in 1..Len(head)
    /\ SetTree(erase_it(Tree, head[i]))
    /\ live' = WithoutKey(live, nodes[head[i]].value.first)
    /\ op' = "erase_it"
    /\ arg' = nodes[head[i]].value.first
    /\ argval' = ""
    /\ retIt' = head[i]
    /\ retFlag' = FALSE
    /\ nops' = nops + 1
    /\ UNCHANGED <<cpy, crashed>>
    /\ UNCHANGED hvars

\* radix_tree copy (tree); the calls on `tree` resume once the copy is destroyed
Copy ==
    /\ ~crashed
    /\ cpy = <<>>
    /\ cpy' = <<copy_ctor(Tree)>>
    /\ op' = "copy"
    /\ arg' = 0
    /\ argval' = ""
    /\ retIt' = End
    /\ retFlag' = FALSE
    /\ UNCHANGED <<nodes, rt_root, head, _size, live, crashed, nops>>
    /\ UNCHANGED hvars

\* ~radix_tree of the copy
DestroyCopy ==
    /\ cpy # <<>>
    /\ cpy' = <<>>
    /\ op' = "dtor"
    /\ UNCHANGED <<nodes, rt_root, head, _size, live, arg, argval, retIt, retFlag, crashed, nops>>
    /\ UNCHANGED hvars

Next ==
    \/ \E key \in Keys, v \in Vals : Insert(key, v)
    \/ \E key \in Keys : Find(key)
    \/ \E key \in Keys : EraseKey(key)
    \/ \E i \in 1..MaxOps : EraseIter(i)
    \/ Copy
    \/ DestroyCopy

Spec == Init /\ [][Next]_vars

\* ------------------------------------------------------------ long runs
\* One entry stays in the tree while a neighbour under the same height-1
\* node is inserted and erased over and over: the calls are those of Spec,
\* the run is long enough for a u16 counter to come round.
AnchorKey == 2 ^ (2 * RT_BRANCH_FACTOR_BIT)
CycleKey == AnchorKey + RT_BRANCH_FACTOR
WrapOps == 2 * U16Mod

WrapInsert(key) ==
    /\ nops < WrapOps
    /\ key \notin LiveKeys
    /\ key = CycleKey => AnchorKey \in LiveKeys
    /\ InsertCall(key, "a")

WrapErase ==
    /\ nops < WrapOps
    /\ CycleKey \in LiveKeys
    /\ EraseKeyCall(CycleKey)

WrapNext ==
    \/ \E key \in {AnchorKey, CycleKey} : WrapInsert(key)
    \/ WrapErase

SpecWrap == Init /\ [][WrapNext]_vars

\* ------------------------------------------------------------ hashmap calls
SetMap(H) ==
    /\ hm_size' = H._size
    /\ hm_table' = H._table
    /\ hm_head' = H.head
    /\ hm_nodes' = H.nodes
    /\ hm_hash' = H._hash

\* hashmap <K, V> map (size), or hashmap <K, V> map; beside the tree
HashInit ==
    /\ TreeInit
    /\ \E buckets \in Buckets, f \in [HashKeys -> HashVals] :
           LET H == hashmap(buckets, f)
           IN  /\ hm_size = H._size
               /\ hm_table = H._table
               /\ hm_head = H.head
               /\ hm_nodes = H.nodes
               /\ hm_hash = H._hash
    /\ hm_first = <<>>

\* map.insert (key, v)
HashInsert(key, v) ==
    /\ nops < HashOps
    /\ LET r == hashmap_insert(Map, key, v)
       IN  /\ SetMap(r.map)
           /\ retIt' = r.first
           /\ retFlag' = r.second
    /\ hm_first' = IF key \in DOMAIN hm_first THEN hm_first ELSE Put(hm_first, key, v)
    /\ op' = "hashmap::insert"
    /\ arg' = key
    /\ argval' = v
    /\ nops' = nops + 1
    /\ UNCHANGED <<nodes, rt_root, head, _size, cpy, live, crashed>>

\* map.find (key)
HashFind(key) ==
    /\ retIt' = hashmap_find(Map, key)
    /\ retFlag' = FALSE
    /\ op' = "hashmap::find"
    /\ arg' = key
    /\ argval' = ""
    /\ UNCHANGED <<nodes, rt_root, head, _size, cpy, live, crashed, nops>>
    /\ UNCHANGED hvars

HashNext ==
    \/ \E key \in HashKeys, v \in Vals : HashInsert(key, v)
    \/ \E key \in HashKeys : HashFind(key)

SpecHash == HashInit /\ [][HashNext]_vars

\* ------------------------------------------------------------ claims
Height == nodes[rt_root].height

\* C1: every key inserted (and not erased since) is found: find(k) is a
\* position other than end() whose data node stores the pair (k, value
\* inserted for k), whatever the order of the inserts and however often the
\* root was extended.
C1_FindAfterInsert ==
    \A i \in 1..Len(live) :
        LET p == find(Tree, live[i].first)
        IN  /\ p # End
            /\ IsData(Tree, p)
            /\ nodes[p].value = live[i]

\* three distinct keys went in by three inserts and the root was extended twice
C1_Witness ==
    /\ op = "insert"
    /\ nops = 3
    /\ Len(live) = 3
    /\ Height = 2
    /\ live[1].first = 0

\* C2 (as claimed): after erase(k) of a present key k, find(k) is end() and
\* size() is one less than before, whether or not other keys remain in k's
\* height-0 branch node.
C2_EraseThenFindEnd ==
    [][(op' = "erase" /\ arg' \in LiveKeys)
          => (find(Tree', arg') = End /\ _size' = _size - 1)]_vars

\* C3 (as claimed): erase(key) of an absent key returns 0 and leaves size(),
\* the trie and the order list unchanged.
C3_EraseAbsent ==
    [][(op' = "erase" /\ arg' \notin LiveKeys)
          => (~crashed' /\ retFlag' = FALSE /\ Tree' = Tree)]_vars

\* C4 (as claimed): find(key) returns end() for every key that is not present.
C4_FindAbsentIsEnd ==
    (op = "find" /\ arg \notin LiveKeys) => retIt = End

\* C5: insert(k, v2) of a key already present reports inserted? = false and
\* changes nothing: the value stored for k, size(), every occupancy count
\* and the order list are as before.
C5_ReinsertKeepsAll ==
    [][(op' = "insert" /\ arg' \in LiveKeys)
          => /\ retFlag' = FALSE
             /\ Tree' = Tree
             /\ IsData(Tree', find(Tree', arg'))
             /\ nodes'[find(Tree', arg')].value.second = live[LiveIndex(arg')].second]_vars

\* a present key was inserted again with another value, below an extended root
C5_Witness ==
    /\ op = "insert"
    /\ ~retFlag
    /\ Height >= 1
    /\ IsData(Tree, find(Tree, arg))
    /\ nodes[find(Tree, arg)].value.second # argval

\* C6 (as claimed): the iterator insert returns is the position find(k)
\* returns right afterwards, for a fresh key and for a pre-existing one.
C6_InsertReturnsResident ==
    op = "insert" => retIt = find(Tree, arg)

\* the data nodes stored in the trie, and the nodes the order list visits
DataInTrie(T) == {n \in Owned(T.nodes, T.rt_root) : T.nodes[n].kind = "data"}
Listed(T) == {T.head[i] : i \in 1..Len(T.head)}

StoredKeys(T) == {T.nodes[n].value.first : n \in DataInTrie(T)}

C9_HeightMonotone ==
    /\ Height = 0
    /\ [][/\ Height' >= Height
          /\ (Height' > Height => op' = "insert")]_vars

\* an erase emptied a tree whose root had been extended twice
C9_Witness ==
    /\ op \in {"erase", "erase_it"}
    /\ ~crashed
    /\ _size = 0
    /\ Len(live) = 0
    /\ Height = 2

\* C10 (as claimed): the copy has the source's size(), find(k) in the copy
\* yields the source's value for every key present in the source and end()
\* for every other key, and the source is unchanged.
C10_CopyEqualsSource ==
    [][op' = "copy"
          => /\ Tree' = Tree
             /\ cpy'[1]._size = _size
             /\ \A k \in Keys :
                    IF k \in LiveKeys
                    THEN /\ IsData(cpy'[1], find(cpy'[1], k))
                         /\ IsData(Tree, find(Tree, k))
                         /\ cpy'[1].nodes[find(cpy'[1], k)].value
                                = nodes[find(Tree, k)].value
                    ELSE find(cpy'[1], k) = End]_vars

\* C11: find(key) mutates nothing: root, height, every node's slots and
\* occupancy, the order list and size() are after the call what they were
\* before, for present keys, absent keys and keys beyond max_index.
C11_FindIsPure ==
    [][op' = "find" => Tree' = Tree]_vars

\* find ran for a key beyond max_index[root.height] on a tree holding an entry
C11_Witness ==
    /\ op = "find"
    /\ arg > max_index(Height)
    /\ retIt = End
    /\ Len(head) >= 1

\* C12 (as claimed): size() is the number of data nodes stored in the trie,
\* which is the number of keys inserted and not erased since, and empty()
\* holds exactly when that number is 0.
C12_SizeCountsEntries ==
    /\ size(Tree) = Cardinality(DataInTrie(Tree))
    /\ size(Tree) = Cardinality(LiveKeys)
    /\ empty(Tree) <=> (Cardinality(DataInTrie(Tree)) = 0)

\* C17 (as claimed): erase of a present key k leaves every other present
\* key k2 where it was: find(k2) returns the same data node with the same
\* value after the erase as before, after any number of insert/erase cycles.
C17_EraseLeavesOthers ==
    [][(op' \in {"erase", "erase_it"} /\ ~crashed' /\ arg' \in LiveKeys)
          => \A k2 \in LiveKeys \ {arg'} :
                 /\ find(Tree', k2) = find(Tree, k2)
                 /\ IsData(Tree', find(Tree', k2))
                 /\ nodes'[find(Tree', k2)] = nodes[find(Tree, k2)]]_vars

\* the branch nodes on the heap
Branches(T) == {n \in DOMAIN T.nodes : T.nodes[n].kind = "branch"}

\* the branch nodes from n up to the root, along the parent pointers
RECURSIVE Upward(_, _)
Upward(ns, n) == IF ns[n].parent = n THEN {n} ELSE {n} \cup Upward(ns, ns[n].parent)

\* C14 (as claimed): after every insert and erase the occupancy counter of
\* each branch node is the number of non-empty entries of its slots array,
\* also in the parent from which shrink removed a dead child.
C14_OccupancyExact ==
    \A n \in Branches(Tree) : nodes[n].size = Cardinality(DOMAIN nodes[n].slots)

\* C15 (as claimed): after erase of a present key, no ancestor branch node
\* of the erased entry other than the root is left with all slots empty, and
\* in a tree of height >= 2 an erase that removed the entry's height-0 node
\* leaves no empty non-root branch node reachable from the root.
C15_DeadAncestorsCollapsed ==
    [][(op' \in {"erase", "erase_it"} /\ ~crashed' /\ arg' \in LiveKeys)
          => LET d == find(Tree, arg')
                 leaf == nodes[d].parent
             IN  /\ \A a \in Upward(nodes, leaf) \ {rt_root} :
                        a \in DOMAIN nodes' => DOMAIN nodes'[a].slots # {}
                 /\ (Height' >= 2 /\ leaf \notin DOMAIN nodes')
                        => \A n \in Owned(nodes', rt_root') \ {rt_root'} :
                               nodes'[n].kind = "branch"
                                   => DOMAIN nodes'[n].slots # {}]_vars

\* C16 (as claimed): after every insert and erase no branch node other than
\* the root has occupancy 0, the former root of an extended empty tree
\* included.
C16_NoDeadBranch ==
    \A n \in Branches(Tree) \ {rt_root} : nodes[n].size # 0

\* C19: the back-pointers are consistent after every insert and erase: the
\* root is its own parent; a non-root branch node sits in the slot `offset`
\* of its parent, one level below it; a data node sits in the slot `offset`
\* of a height-0 branch node, offset being the low 6 bits of its key.
C19_BackPointers ==
    /\ nodes[rt_root].kind = "branch"
    /\ nodes[rt_root].parent = rt_root
    /\ \A n \in Branches(Tree) \ {rt_root} :
           LET p == nodes[n].parent
           IN  /\ p \in Branches(Tree)
               /\ Slot(nodes[p], nodes[n].offset) = n
               /\ nodes[n].height = nodes[p].height - 1
    /\ \A d \in DOMAIN nodes \ Branches(Tree) :
           LET p == nodes[d].parent
           IN  /\ p \in Branches(Tree)
               /\ nodes[p].height = 0
               /\ Slot(nodes[p], nodes[d].offset) = d
               /\ nodes[d].offset = SlotIndex(nodes[d].value.first, 0)

\* an erase left entries in two height-0 nodes below a root extended twice
C19_Witness ==
    /\ op \in {"erase", "erase_it"}
    /\ ~crashed
    /\ Height = 2
    /\ Len(head) = 2
    /\ nodes[head[1]].parent # nodes[head[2]].parent
    /\ Cardinality(Branches(Tree)) >= 5

\* the keys at which the extend loop changes its answer: 0, and each
\* max_index[h] with its successor
ProbeKeys ==
    {0} \cup UNION {{max_index(h), (max_index(h) + 1) % IndexMod} : h \in 0..(max_height - 1)}

\* C18: max_index[h] = 2^(6*(h+1)) - 1 for every height whose bound fits the
\* index width, max_index[max_height-1] is the largest key, and from every
\* reachable tree the extend loop of insert ends, for every key, at a root
\* height <= max_height-1 with key <= max_index[root.height], so that it
\* reads no entry of the table beyond the initialised ones.
C18_MaxIndexTable ==
    /\ \A h \in 0..(max_height - 1) :
           RT_BRANCH_FACTOR_BIT * (h + 1) <= IndexBits
               => max_index(h) = 2 ^ (RT_BRANCH_FACTOR_BIT * (h + 1)) - 1
    /\ max_index(max_height - 1) = IndexMod - 1
    /\ \A k \in ProbeKeys :
           LET h == ExtendLoop(Tree, k).nodes[ExtendLoop(Tree, k).rt_root].height
           IN  h <= max_height - 1 /\ k <= max_index(h)
    /\ op = "insert" => (Height <= max_height - 1 /\ arg <= max_index(Height))

\* an insert extended the root to the last height of the table
C18_Witness ==
    /\ op = "insert"
    /\ arg > max_index(max_height - 2)
    /\ Height = max_height - 1
    /\ nops = 1

\* C13: in the hash map, after every call, find(k) of a key inserted
\* before is the position of a node holding k and the value of k's first
\* insert, and find(k) of a key never inserted is end(), keys sharing a
\* bucket included; an insert of a key already in the map returns the
\* position find gave for it with inserted? = false and leaves the bucket
\* chains, the order list and the nodes as they were; an insert of a new key
\* links one node at the tail of its chain and of the order list.
C13_HashFirstInsertWins ==
    [][/\ \A k \in HashKeys :
            LET it == hashmap_find(Map', k)
            IN  IF k \in DOMAIN hm_first'
                THEN /\ it \in DOMAIN hm_nodes'
                     /\ hm_nodes'[it] = [key |-> k, value |-> hm_first'[k]]
                ELSE it = End
       /\ (op' = "hashmap::find" => retIt' = hashmap_find(Map', arg'))
       /\ ((op' = "hashmap::insert" /\ arg' \in DOMAIN hm_first)
              => /\ retFlag' = FALSE
                 /\ retIt' = hashmap_find(Map, arg')
                 /\ Map' = Map)
       /\ ((op' = "hashmap::insert" /\ arg' \notin DOMAIN hm_first)
              => /\ retFlag' = TRUE
                 /\ retIt' \notin DOMAIN hm_nodes
                 /\ hm_head' = Append(hm_head, retIt')
                 /\ Cardinality(DOMAIN hm_nodes') = Cardinality(DOMAIN hm_nodes) + 1)
       /\ Len(hm_head') = Cardinality(DOMAIN hm_first')]_vars

\* a key that sits second in a bucket chain of two was inserted again with
\* another value
C13_Witness ==
    /\ op = "hashmap::insert"
    /\ retFlag = FALSE
    /\ argval # hm_first[arg]
    /\ LET chain == Chain(Map, BucketIndex(Map, arg))
       IN  /\ Len(chain) = 2
           /\ chain[2] = retIt
           /\ hm_nodes[chain[1]].key # arg
    /\ Len(hm_head) = 3
====
